---- MODULE Spec2Model ----
(***************************************************************************)
(* Subscription lifecycle of the loyalty-platform admin surface:           *)
(*   - SubscriptionService (src/src/services/subscriptionService.ts):      *)
(*     createSubscription, updateSubscription, updateSubscriptionStatus,   *)
(*     getUserSubscription, checkSubscriptionAccess, fallbackAccessCheck   *)
(*     against the `subscriptions` table;                                  *)
(*   - the Stripe webhook handler                                          *)
(*     (src/supabase/functions/stripe-webhook/index.ts) and its two other  *)
(*     versions (src/unnamed/part_002, src/unnamed/part_003): which        *)
(*     handle_subscription_webhook call each event produces and which      *)
(*     HTTP response the sender gets;                                      *)
(*   - the period-end calculators: the switches of the service,            *)
(*     calculatePeriodEnd of the webhook (src/unnamed/part_002) and the    *)
(*     SQL functions calculate_subscription_period_end.                    *)
(*                                                                         *)
(* Instants are whole seconds since 1970-01-01T00:00:00Z.  The source      *)
(* computes with JavaScript milliseconds; TLC integers are 32 bits wide    *)
(* and 30 days of milliseconds do not fit, so every duration of the source *)
(* is divided by 1000 (DAY is 24 * 60 * 60 where the source writes         *)
(* 24 * 60 * 60 * 1000).                                                   *)
(***************************************************************************)
EXTENDS Integers, FiniteSets, Sequences, TLC

VARIABLES
  now,            \* the wall clock (new Date(), the store's now())
  ticks,          \* how often the clock has advanced
  subscriptions,  \* the rows of the `subscriptions` table
  calls,          \* per client process: the service call in flight
  nops,           \* number of service calls started so far
  overlap,        \* history: some call started while another was in flight
  readFailed,     \* history: some lookup of createSubscription failed
  lastWrite,      \* history: the last successful write of the store
  access,         \* the last decision returned by checkSubscriptionAccess
  webhook,        \* the last event handled by the webhook: event, rpc, response
  calc,           \* the last application of a period-end calculator
  admin,          \* the super-admin dashboard page and its session keys
  chat,           \* the support messages of the selected ticket
  auth            \* AuthProvider: user, restaurant and the fetches pending

vars == <<now, ticks, subscriptions, calls, nops, overlap, readFailed,
          lastWrite, access, webhook, calc, admin, chat, auth>>

\* the variables of the subscription service, the webhook and the calculators
service == <<subscriptions, calls, nops, overlap, readFailed, lastWrite,
             access, webhook, calc>>

\* the variables of the browser pages
pages == <<admin, chat, auth>>

----------------------------------------------------------------------------
(* Bounds of the model. *)

MaxTicks == 1
MaxOps == 2
MaxMessages == 3

(* Sets the inputs are drawn from. *)

Users == {"u1", "u2"}
\* client processes (browser sessions) that may have a service call in flight
Procs == {1, 2}

\* Subscription.plan_type
PlanKinds == {"trial", "monthly", "semiannual", "annual"}

\* Subscription.status
Statuses == {"active", "expired", "cancelled", "past_due"}

\* an optional argument that was not passed, a column that is NULL
Undefined == "undefined"

\* (planType, stripeSubscriptionId, stripeCustomerId) triples a caller passes:
\* the sign-up's trial without external ids, paid plans with the ids of the
\* checkout, and a plan string that is no plan kind
CallInputs ==
  {<<"trial", Undefined, Undefined>>, <<"monthly", "sub_1", "cus_1">>,
   <<"annual", "sub_1", "cus_1">>, <<"weekly", Undefined, Undefined>>}

\* seconds by which the clock advances in one step
Steps == {1}

DAY == 24 * 60 * 60

----------------------------------------------------------------------------
(* The store. *)

RowsOf(userId) == {r \in subscriptions : r.user_id = userId}

\* .eq('user_id', userId).order('created_at', {ascending: false}).limit(1):
\* the rows the query may return (any of the newest when created_at ties)
LatestRows(userId) ==
  {r \in RowsOf(userId) : \A q \in RowsOf(userId) : q.created_at <= r.created_at}

\* outcomes of a read of the store: data without error, the error PGRST116
\* (no row where a single object was requested), another error, an exception
ReadOutcomes == {"ok", "PGRST116", "error", "throw"}

\* PGRST116 is reported only when the query selects no row
CanAnswer(userId, outcome) == outcome = "PGRST116" => RowsOf(userId) = {}

\* getUserSubscription: the set of values it may return for an outcome of the
\* query; the value is {} for null and {r} for row r.  It never throws.
getUserSubscriptionStale(userId, outcome) ==
  IF RowsOf(userId) = {} THEN {{}} ELSE {{r} : r \in LatestRows(userId)}

getUserSubscription(userId, outcome) ==
  CASE outcome = "ok" ->
         IF RowsOf(userId) = {} THEN {{}} ELSE {{r} : r \in LatestRows(userId)}
    [] outcome = "PGRST116" -> {{}}  \* error.code = 'PGRST116': return data (null)
    [] outcome = "error" -> {{}}     \* any other error: return null
    [] OTHER -> {{}}                 \* the query threw: catch, return null

----------------------------------------------------------------------------
(* Period ends computed by the service. *)

\* createSubscription, switch (planType)
CreatePeriodEnd(t, planType) ==
  CASE planType = "trial" -> t + 30 * DAY
    [] planType = "monthly" -> t + 30 * DAY
    [] planType = "semiannual" -> t + 180 * DAY
    [] planType = "annual" -> t + 365 * DAY
    [] OTHER -> t + 30 * DAY

\* updateSubscription, switch (planType)
UpdatePeriodEnd(t, planType) ==
  CASE planType = "trial" -> t + 30 * DAY
    [] planType = "monthly" -> t + 30 * DAY
    [] planType = "semiannual" -> t + 180 * DAY
    [] planType = "annual" -> t + 365 * DAY
    [] OTHER -> t + 30 * DAY

----------------------------------------------------------------------------
(* Statements sent to the store.  Every statement is a record of the same  *)
(* shape; a field a statement does not set is given a filler value.        *)

NoStmt ==
  [kind |-> "none", id |-> 0, user_id |-> "", plan_type |-> "", status |-> "",
   stripe_subscription_id |-> Undefined, stripe_customer_id |-> Undefined,
   current_period_start |-> 0, current_period_end |-> 0, updated_at |-> 0]

\* updateSubscription: .update({plan_type, status: 'active', stripe ids,
\* current_period_end, updated_at}).eq('id', subscriptionId)
UpdateSubscriptionStmt(subscriptionId, planType, sid, cid, t) ==
  [NoStmt EXCEPT !.kind = "updateSubscription", !.id = subscriptionId,
     !.plan_type = planType, !.status = "active",
     !.stripe_subscription_id = sid, !.stripe_customer_id = cid,
     !.current_period_end = UpdatePeriodEnd(t, planType),
     !.updated_at = t]

\* createSubscription, existing row that is not active: .update({... all of
\* the above and current_period_start}).eq('id', existingSubscription.id)
CreateUpdateStmtKeepStatus(subscriptionId, planType, sid, cid, t) ==
  [NoStmt EXCEPT !.kind = "update", !.id = subscriptionId,
     !.plan_type = planType, !.status = "expired",
     !.stripe_subscription_id = sid, !.stripe_customer_id = cid,
     !.current_period_start = t,
     !.current_period_end = CreatePeriodEnd(t, planType),
     !.updated_at = t]

CreateUpdateStmt(subscriptionId, planType, sid, cid, t) ==
  [NoStmt EXCEPT !.kind = "update", !.id = subscriptionId,
     !.plan_type = planType, !.status = "active",
     !.stripe_subscription_id = sid, !.stripe_customer_id = cid,
     !.current_period_start = t,
     !.current_period_end = CreatePeriodEnd(t, planType),
     !.updated_at = t]

\* createSubscription, no existing row: .insert({user_id, plan_type, ...})
CreateInsertStmt(userId, planType, sid, cid, t) ==
  [NoStmt EXCEPT !.kind = "insert", !.user_id = userId,
     !.plan_type = planType, !.status = "active",
     !.stripe_subscription_id = sid, !.stripe_customer_id = cid,
     !.current_period_start = t,
     !.current_period_end = CreatePeriodEnd(t, planType)]

\* updateSubscriptionStatus: .update({status, updated_at}).eq('id', id)
StatusStmt(subscriptionId, status, t) ==
  [NoStmt EXCEPT !.kind = "status", !.id = subscriptionId,
     !.status = status, !.updated_at = t]

\* A key whose value is undefined is left out of the JSON body of the
\* request, so an update does not touch that column.
SetIfDefined(old, new) == IF new = Undefined THEN old ELSE new

\* the row an update statement makes of row r
UpdatedRowRestart(r, stmt) ==
  CASE stmt.kind = "updateSubscription" ->
         [r EXCEPT !.plan_type = stmt.plan_type, !.status = stmt.status,
            !.stripe_subscription_id = SetIfDefined(@, stmt.stripe_subscription_id),
            !.stripe_customer_id = SetIfDefined(@, stmt.stripe_customer_id),
            !.current_period_start = stmt.updated_at,
            !.current_period_end = stmt.current_period_end,
            !.updated_at = stmt.updated_at]
    [] stmt.kind = "update" ->
         [r EXCEPT !.plan_type = stmt.plan_type, !.status = stmt.status,
            !.stripe_subscription_id = SetIfDefined(@, stmt.stripe_subscription_id),
            !.stripe_customer_id = SetIfDefined(@, stmt.stripe_customer_id),
            !.current_period_start = stmt.current_period_start,
            !.current_period_end = stmt.current_period_end,
            !.updated_at = stmt.updated_at]
    [] stmt.kind = "status" ->
         [r EXCEPT !.status = stmt.status, !.updated_at = stmt.updated_at]
    [] OTHER -> r

UpdatedRow(r, stmt) ==
  CASE stmt.kind = "updateSubscription" ->
         [r EXCEPT !.plan_type = stmt.plan_type, !.status = stmt.status,
            !.stripe_subscription_id = SetIfDefined(@, stmt.stripe_subscription_id),
            !.stripe_customer_id = SetIfDefined(@, stmt.stripe_customer_id),
            !.current_period_end = stmt.current_period_end,
            !.updated_at = stmt.updated_at]
    [] stmt.kind = "update" ->
         [r EXCEPT !.plan_type = stmt.plan_type, !.status = stmt.status,
            !.stripe_subscription_id = SetIfDefined(@, stmt.stripe_subscription_id),
            !.stripe_customer_id = SetIfDefined(@, stmt.stripe_customer_id),
            !.current_period_start = stmt.current_period_start,
            !.current_period_end = stmt.current_period_end,
            !.updated_at = stmt.updated_at]
    [] stmt.kind = "status" ->
         [r EXCEPT !.status = stmt.status, !.updated_at = stmt.updated_at]
    [] OTHER -> r

\* the row an insert statement adds; id, created_at and updated_at are set
\* by the store
InsertedRow(stmt, t) ==
  [id |-> Cardinality(subscriptions) + 1, user_id |-> stmt.user_id,
   plan_type |-> stmt.plan_type, status |-> stmt.status,
   stripe_subscription_id |-> stmt.stripe_subscription_id,
   stripe_customer_id |-> stmt.stripe_customer_id,
   current_period_start |-> stmt.current_period_start,
   current_period_end |-> stmt.current_period_end,
   created_at |-> t, updated_at |-> t]

\* the table after the statement has been executed
Execute(stmt) ==
  IF stmt.kind = "insert"
  THEN subscriptions \cup {InsertedRow(stmt, now)}
  ELSE {IF r.id = stmt.id THEN UpdatedRow(r, stmt) ELSE r : r \in subscriptions}

----------------------------------------------------------------------------
(* The access evaluator. *)

\* getTrialFeatures
getTrialFeaturesPaid ==
  [maxCustomers |-> -1, maxBranches |-> -1, advancedAnalytics |-> TRUE,
   prioritySupport |-> TRUE, customBranding |-> FALSE, apiAccess |-> FALSE]

getTrialFeatures ==
  [maxCustomers |-> 100, maxBranches |-> 1, advancedAnalytics |-> FALSE,
   prioritySupport |-> FALSE, customBranding |-> FALSE, apiAccess |-> FALSE]

\* getPlanFeatures(planType)
getPlanFeaturesAllPaid(planType) ==
  CASE planType = "trial" -> getTrialFeatures
    [] planType \in {"monthly", "semiannual", "annual"} ->
         [maxCustomers |-> -1, maxBranches |-> -1, advancedAnalytics |-> TRUE,
          prioritySupport |-> TRUE, customBranding |-> TRUE,
          apiAccess |-> TRUE]
    [] OTHER -> getTrialFeatures

getPlanFeatures(planType) ==
  CASE planType = "trial" -> getTrialFeatures
    [] planType \in {"monthly", "semiannual", "annual"} ->
         [maxCustomers |-> -1, maxBranches |-> -1, advancedAnalytics |-> TRUE,
          prioritySupport |-> TRUE, customBranding |-> planType # "monthly",
          apiAccess |-> planType # "monthly"]
    [] OTHER -> getTrialFeatures

\* Math.ceil(x / d) for integers x and d > 0
MathFloorDiv(x, d) == x \div d

MathCeilDiv(x, d) == -((-x) \div d)

\* Math.max(a, b)
MathMaxSecond(a, b) == b

MathMax(a, b) == IF a >= b THEN a ELSE b

\* fallbackAccessCheck(subscription) evaluated at instant t; subscription is
\* {} for null and {r} for row r
fallbackAccessCheckInclusive(subscription, t) ==
  IF subscription = {}
  THEN [hasAccess |-> TRUE, subscription |-> {}, features |-> getTrialFeatures,
        daysRemaining |-> 30]
  ELSE LET r == CHOOSE r \in subscription : TRUE
           endDate == r.current_period_end
           hasAccess == r.status = "active" /\ endDate >= t
           daysRemaining == MathCeilDiv(endDate - t, DAY)
       IN [hasAccess |-> hasAccess, subscription |-> subscription,
           features |-> getPlanFeatures(r.plan_type),
           daysRemaining |-> MathMax(0, daysRemaining)]

fallbackAccessCheck(subscription, t) ==
  IF subscription = {}
  THEN [hasAccess |-> TRUE, subscription |-> {}, features |-> getTrialFeatures,
        daysRemaining |-> 30]
  ELSE LET r == CHOOSE r \in subscription : TRUE
           endDate == r.current_period_end
           hasAccess == r.status = "active" /\ endDate > t
           daysRemaining == MathCeilDiv(endDate - t, DAY)
       IN [hasAccess |-> hasAccess, subscription |-> subscription,
           features |-> getPlanFeatures(r.plan_type),
           daysRemaining |-> MathMax(0, daysRemaining)]

\* checkSubscriptionAccess(userId): the decisions it may return when the
\* read of the store has the given outcome and is answered at instant t.
\* getUserSubscription catches whatever the read throws, so the catch block
\* of checkSubscriptionAccess (which returns the same decision as the null
\* branch of fallbackAccessCheck) is not entered.
checkSubscriptionAccess(userId, outcome, t) ==
  {fallbackAccessCheck(subscription, t) :
     subscription \in getUserSubscription(userId, outcome)}

----------------------------------------------------------------------------
(* Calendar arithmetic of the period-end calculators.  The webhook helper  *)
(* computes with the JavaScript Date of the edge runtime, whose local time *)
(* zone is UTC (ECMAScript 21.4.1: Day, YearFromTime, MonthFromTime,       *)
(* DateFromTime, MakeDay, MakeDate); the SQL functions add a PostgreSQL    *)
(* interval to a timestamptz in a UTC session.  Months are 0..11 as in     *)
(* JavaScript.                                                             *)

Day(t) == t \div DAY
TimeWithinDay(t) == t % DAY

DaysInYear(y) ==
  IF y % 4 # 0 THEN 365
  ELSE IF y % 100 # 0 THEN 366
  ELSE IF y % 400 # 0 THEN 365
  ELSE 366

DayFromYear(y) ==
  365 * (y - 1970) + ((y - 1969) \div 4) - ((y - 1901) \div 100)
    + ((y - 1601) \div 400)

TimeFromYear(y) == DAY * DayFromYear(y)

\* the years whose instants fit a 32-bit count of seconds
Years == 1970 .. 2037

YearFromTime(t) ==
  CHOOSE y \in Years : TimeFromYear(y) <= t /\ t < TimeFromYear(y + 1)

InLeapYear(t) == IF DaysInYear(YearFromTime(t)) = 366 THEN 1 ELSE 0

DayWithinYear(t) == Day(t) - DayFromYear(YearFromTime(t))

\* the day within the year on which month m starts (m = 12: the year's end)
MonthStart(m, leap) ==
  CASE m = 0 -> 0
    [] m = 1 -> 31
    [] m = 2 -> 59 + leap
    [] m = 3 -> 90 + leap
    [] m = 4 -> 120 + leap
    [] m = 5 -> 151 + leap
    [] m = 6 -> 181 + leap
    [] m = 7 -> 212 + leap
    [] m = 8 -> 243 + leap
    [] m = 9 -> 273 + leap
    [] m = 10 -> 304 + leap
    [] m = 11 -> 334 + leap
    [] OTHER -> 365 + leap

MonthFromTime(t) ==
  CHOOSE m \in 0 .. 11 :
    /\ MonthStart(m, InLeapYear(t)) <= DayWithinYear(t)
    /\ DayWithinYear(t) < MonthStart(m + 1, InLeapYear(t))

DateFromTime(t) ==
  DayWithinYear(t) - MonthStart(MonthFromTime(t), InLeapYear(t)) + 1

\* MakeDay: a month beyond 11 carries into the year, a date beyond the
\* month's last day runs on into the following month
MakeDay(year, month, date) ==
  LET ym == year + (month \div 12)
      mn == month % 12
      leap == IF DaysInYear(ym) = 366 THEN 1 ELSE 0
  IN DayFromYear(ym) + MonthStart(mn, leap) + date - 1

MakeDate(day, time) == day * DAY + time

\* Date.prototype.setMonth(month) and setFullYear(year) applied to instant t
setMonth(t, month) ==
  MakeDate(MakeDay(YearFromTime(t), month, DateFromTime(t)), TimeWithinDay(t))

setFullYear(t, year) ==
  MakeDate(MakeDay(year, MonthFromTime(t), DateFromTime(t)), TimeWithinDay(t))

\* the instant of year-month-date at `time` seconds into the day
Instant(year, month, date, time) == MakeDate(MakeDay(year, month, date), time)

DaysInMonth(year, month) ==
  LET leap == IF DaysInYear(year) = 366 THEN 1 ELSE 0
  IN MonthStart(month + 1, leap) - MonthStart(month, leap)

\* timestamptz + interval 'n months': the month is advanced and a day of
\* the month that the target month does not have becomes its last day
PgAddMonths(t, n) ==
  LET m == MonthFromTime(t) + n
      ym == YearFromTime(t) + (m \div 12)
      mn == m % 12
      d == IF DateFromTime(t) > DaysInMonth(ym, mn)
           THEN DaysInMonth(ym, mn) ELSE DateFromTime(t)
  IN Instant(ym, mn, d, TimeWithinDay(t))

\* timestamptz + interval 'n days' in a UTC session
PgAddDays(t, n) == t + n * DAY

\* calculatePeriodEnd(start, planType) of the webhook helper: the switch has
\* no case for trial and no default, so any other plan returns the start
calculatePeriodEnd(start, planType) ==
  CASE planType = "monthly" -> setMonth(start, MonthFromTime(start) + 1)
    [] planType = "semiannual" -> setMonth(start, MonthFromTime(start) + 6)
    [] planType = "annual" -> setFullYear(start, YearFromTime(start) + 1)
    [] OTHER -> start

----------------------------------------------------------------------------
(* The Stripe webhook handler (supabase/functions/stripe-webhook).         *)

\* null, as the handler passes it to the database function
Null == "null"

\* how far a request gets before the event is dispatched
WebhookGates == {"OPTIONS", "no-signature", "no-secret", "bad-signature", "ok"}

\* event types with a case of their own in the switch
HandledTypes ==
  {"checkout.session.completed", "payment_intent.succeeded",
   "invoice.payment_succeeded", "invoice.payment_failed",
   "customer.subscription.deleted"}

\* event types delivered: the handled ones and one the switch has no case for
WebhookTypes == HandledTypes \cup {"customer.subscription.updated"}

\* metadata.user_id and metadata.plan_type of the event's object (for the
\* invoice events: of the subscription retrieved from Stripe)
MetaUsers == {Undefined, "u1"}
MetaPlans == {Undefined, "annual", "weekly"}

\* session.subscription, invoice.subscription, subscription.id
StripeSubscriptions == {Undefined, "sub_1"}

\* (current_period_start, current_period_end) of the Stripe subscription
StripePeriods == {<<0, 30 * DAY>>, <<30 * DAY, 60 * DAY>>}

\* outcomes of stripe.subscriptions.retrieve and of supabase.rpc
RetrieveOutcomes == {"ok", "throw"}
RpcOutcomes == {"ok", "error"}

\* new Date(unixSeconds * 1000).toISOString(): instants are counted in
\* seconds, as Stripe's timestamps are
ToInstant(unixSeconds) == unixSeconds

\* x || y on strings
OrElse(x, y) == IF x = Undefined THEN y ELSE x

\* the arguments of one supabase.rpc('handle_subscription_webhook', ...)
\* call; p_period_end is {} for null
RpcParams(userId, planType, status, sid, cid, periodStart, periodEnd) ==
  [p_user_id |-> userId, p_plan_type |-> planType, p_status |-> status,
   p_stripe_subscription_id |-> sid, p_stripe_customer_id |-> cid,
   p_period_start |-> periodStart, p_period_end |-> periodEnd]

\* what a case of the switch does: the rpc calls it makes and whether it
\* throws to the handler's outer catch
CaseResult(rpc, threw) == [rpc |-> rpc, threw |-> threw]

\* case 'checkout.session.completed'
CheckoutSessionCompleted(ev, rpcOutcome, t) ==
  IF ev.user_id # Undefined /\ ev.plan_type # Undefined
  THEN CaseResult({RpcParams(ev.user_id, ev.plan_type, "active",
                             OrElse(ev.subscription, Null), ev.customer, t, {})},
                  rpcOutcome = "error")
  ELSE CaseResult({}, FALSE)

\* case 'payment_intent.succeeded'
PaymentIntentSucceeded(ev, rpcOutcome, t) ==
  IF ev.user_id # Undefined /\ ev.plan_type # Undefined
  THEN CaseResult({RpcParams(ev.user_id, ev.plan_type, "active",
                             Null, ev.customer, t, {})},
                  rpcOutcome = "error")
  ELSE CaseResult({}, FALSE)

\* case 'invoice.payment_succeeded': the error of the rpc is thrown inside
\* the try block of the case and caught by its catch
InvoicePaymentSucceededSwapped(ev, retrieve, rpcOutcome) ==
  IF ev.subscription # Undefined /\ retrieve = "ok" /\ ev.user_id # Undefined
  THEN CaseResult({RpcParams(ev.user_id, OrElse(ev.plan_type, "monthly"),
                             "active", ev.subscription, ev.customer,
                             ToInstant(ev.period[2]), {ToInstant(ev.period[1])})},
                  FALSE)
  ELSE CaseResult({}, FALSE)

InvoicePaymentSucceeded(ev, retrieve, rpcOutcome) ==
  IF ev.subscription # Undefined /\ retrieve = "ok" /\ ev.user_id # Undefined
  THEN CaseResult({RpcParams(ev.user_id, OrElse(ev.plan_type, "monthly"),
                             "active", ev.subscription, ev.customer,
                             ToInstant(ev.period[1]), {ToInstant(ev.period[2])})},
                  FALSE)
  ELSE CaseResult({}, FALSE)

\* case 'invoice.payment_failed'
InvoicePaymentFailed(ev, retrieve, rpcOutcome) ==
  IF ev.subscription # Undefined /\ retrieve = "ok" /\ ev.user_id # Undefined
  THEN CaseResult({RpcParams(ev.user_id, OrElse(ev.plan_type, "monthly"),
                             "past_due", ev.subscription, ev.customer,
                             ToInstant(ev.period[1]), {ToInstant(ev.period[2])})},
                  FALSE)
  ELSE CaseResult({}, FALSE)

\* case 'customer.subscription.deleted'
CustomerSubscriptionDeleted(ev, rpcOutcome) ==
  IF ev.user_id # Undefined
  THEN CaseResult({RpcParams(ev.user_id, OrElse(ev.plan_type, "monthly"),
                             "cancelled", ev.subscription, ev.customer,
                             ToInstant(ev.period[1]), {ToInstant(ev.period[2])})},
                  FALSE)
  ELSE CaseResult({}, FALSE)

\* switch (event.type)
Dispatch(ev, retrieve, rpcOutcome, t) ==
  CASE ev.type = "checkout.session.completed" ->
         CheckoutSessionCompleted(ev, rpcOutcome, t)
    [] ev.type = "payment_intent.succeeded" ->
         PaymentIntentSucceeded(ev, rpcOutcome, t)
    [] ev.type = "invoice.payment_succeeded" ->
         InvoicePaymentSucceeded(ev, retrieve, rpcOutcome)
    [] ev.type = "invoice.payment_failed" ->
         InvoicePaymentFailed(ev, retrieve, rpcOutcome)
    [] ev.type = "customer.subscription.deleted" ->
         CustomerSubscriptionDeleted(ev, rpcOutcome)
    [] OTHER -> CaseResult({}, FALSE)

\* the handler: the rpc calls made for the request and the response
\* (status, and whether the body says processed: true)
Response(rpc, status, processed) ==
  [rpc |-> rpc, status |-> status, processed |-> processed]

Serve(gate, ev, retrieve, rpcOutcome, t) ==
  CASE gate = "OPTIONS" -> Response({}, 200, FALSE)
    [] gate = "no-signature" -> Response({}, 400, FALSE)
    [] gate = "no-secret" -> Response({}, 500, FALSE)
    [] gate = "bad-signature" -> Response({}, 400, FALSE)
    [] OTHER ->
         LET done == Dispatch(ev, retrieve, rpcOutcome, t)
         IN IF done.threw THEN Response(done.rpc, 400, FALSE)
            ELSE Response(done.rpc, 200, TRUE)

----------------------------------------------------------------------------
(* Two more versions of the webhook handler are in the repository.  One    *)
(* sends every event through a local updateSubscription helper and         *)
(* computes the period end of one-off payments with calculatePeriodEnd     *)
(* (the "helper" version); the other is built on serve(), retrieves the    *)
(* Stripe subscription also for checkout sessions and falls back to a      *)
(* lookup of the table by customer id (the "fallback" version).            *)

\* the helper version's switch: the local updateSubscription throws when
\* the rpc returns an error, and so does stripe.subscriptions.retrieve
HelperDispatch(ev, retrieve, rpcOutcome, t) ==
  CASE ev.type \in {"checkout.session.completed", "payment_intent.succeeded"} ->
         IF ev.user_id # Undefined /\ ev.plan_type # Undefined
         THEN CaseResult(
                {RpcParams(ev.user_id, ev.plan_type, "active",
                   IF ev.type = "checkout.session.completed"
                   THEN OrElse(ev.subscription, Null) ELSE Null,
                   ev.customer, t, {calculatePeriodEnd(t, ev.plan_type)})},
                rpcOutcome = "error")
         ELSE CaseResult({}, FALSE)
    [] ev.type \in {"invoice.payment_succeeded", "invoice.payment_failed",
                    "customer.subscription.deleted"} ->
         LET invoice == ev.type # "customer.subscription.deleted"
             status == IF ev.type = "invoice.payment_failed" THEN "past_due"
                       ELSE IF invoice THEN "active" ELSE "cancelled"
         IN IF invoice /\ ev.subscription = Undefined
            THEN CaseResult({}, FALSE)
            ELSE IF invoice /\ retrieve = "throw"
            THEN CaseResult({}, TRUE)
            ELSE IF ev.user_id # Undefined
            THEN CaseResult(
                   {RpcParams(ev.user_id, OrElse(ev.plan_type, "monthly"),
                      status, ev.subscription, ev.customer,
                      ToInstant(ev.period[1]), {ToInstant(ev.period[2])})},
                   rpcOutcome = "error")
            ELSE CaseResult({}, FALSE)
    [] OTHER -> CaseResult({}, FALSE)

\* the helper version of the handler
HelperServe(gate, ev, retrieve, rpcOutcome, t) ==
  CASE gate = "OPTIONS" -> Response({}, 200, FALSE)
    [] gate = "no-signature" -> Response({}, 400, FALSE)
    [] gate = "no-secret" -> Response({}, 500, FALSE)
    [] gate = "bad-signature" -> Response({}, 400, FALSE)
    [] OTHER ->
         LET done == HelperDispatch(ev, retrieve, rpcOutcome, t)
         IN IF done.threw THEN Response(done.rpc, 400, FALSE)
            ELSE Response(done.rpc, 200, FALSE)

\* outcomes of the fallback version's read of the table
LookupOutcomes == {"ok", "error"}

\* .from("subscriptions").select("user_id, plan_type")
\*   .eq("stripe_customer_id", customer).maybeSingle(): data is the row when
\* exactly one row matches, null ({}) when none or several match or the read
\* fails
LookupByCustomer(customer, outcome) ==
  LET found == {r \in subscriptions : r.stripe_customer_id = customer}
  IN IF outcome = "ok" /\ Cardinality(found) = 1 THEN found ELSE {}

\* the fallback version's switch: the error of an rpc is logged only
FallbackDispatch(ev, retrieve, lookup, rpcOutcome) ==
  LET call(userId, planType, status) ==
        CaseResult({RpcParams(userId, planType, status, ev.subscription,
                              ev.customer, ToInstant(ev.period[1]),
                              {ToInstant(ev.period[2])})}, FALSE)
      data == LookupByCustomer(ev.customer, lookup)
      resolved == (ev.user_id = Undefined \/ ev.plan_type = Undefined)
                    /\ data # {}
      userId == IF resolved THEN (CHOOSE r \in data : TRUE).user_id
                ELSE ev.user_id
      planType == IF resolved THEN (CHOOSE r \in data : TRUE).plan_type
                  ELSE ev.plan_type
  IN CASE ev.type = "checkout.session.completed" ->
            IF ev.subscription # Undefined /\ ev.user_id # Undefined
            THEN IF retrieve = "throw" THEN CaseResult({}, TRUE)
                 ELSE call(ev.user_id, OrElse(ev.plan_type, "monthly"), "active")
            ELSE CaseResult({}, FALSE)
       [] ev.type = "invoice.payment_succeeded" ->
            IF ev.subscription = Undefined THEN CaseResult({}, FALSE)
            ELSE IF retrieve = "throw" THEN CaseResult({}, TRUE)
            ELSE IF userId # Undefined /\ planType # Undefined
            THEN call(userId, planType, "active")
            ELSE CaseResult({}, FALSE)
       [] ev.type = "invoice.payment_failed" ->
            IF ev.subscription = Undefined THEN CaseResult({}, FALSE)
            ELSE IF retrieve = "throw" THEN CaseResult({}, TRUE)
            ELSE call(ev.user_id, ev.plan_type, "past_due")
       [] ev.type = "customer.subscription.deleted" ->
            call(ev.user_id, ev.plan_type, "canceled")
       [] OTHER -> CaseResult({}, FALSE)

\* the fallback version of the handler: it reads the secret unchecked, and
\* constructEvent throws without one
FallbackServe(gate, ev, retrieve, lookup, rpcOutcome) ==
  CASE gate = "OPTIONS" -> Response({}, 200, FALSE)
    [] gate \in {"no-signature", "no-secret", "bad-signature"} ->
         Response({}, 400, FALSE)
    [] OTHER ->
         LET done == FallbackDispatch(ev, retrieve, lookup, rpcOutcome)
         IN IF done.threw THEN Response(done.rpc, 500, FALSE)
            ELSE Response(done.rpc, 200, FALSE)

----------------------------------------------------------------------------
(* Service calls.  A call is a sequence of steps separated by the awaits   *)
(* of the source: the lookup, then the write.                              *)

Idle ==
  [pc |-> "idle", op |-> "", userId |-> "", planType |-> "",
   sid |-> Undefined, cid |-> Undefined, stmt |-> NoStmt]

InFlight == {p \in Procs : calls[p].pc # "idle"}

\* Users are interchangeable: the first call of all is made for "u1".
FirstUser(userId) == nops = 0 => userId = "u1"

\* Processes are interchangeable: a new call is taken by the first idle one.
Free(p) == calls[p].pc = "idle" /\ \A q \in Procs : q < p => calls[q].pc # "idle"

\* the billing event a createSubscription call applies
EventOf(c) ==
  [userId |-> c.userId, planType |-> c.planType, sid |-> c.sid, cid |-> c.cid]

NoEvent == [userId |-> "", planType |-> "", sid |-> Undefined, cid |-> Undefined]

\* the last write: the id of the row written, the event of the call when it
\* was a createSubscription (NoEvent otherwise), the row before the write ({}
\* for an insert), and whether the write applied to the row the event that
\* the write before it had applied to the same row
NoWrite == [id |-> 0, ev |-> NoEvent, repeat |-> FALSE, before |-> {}]

\* the fields of a row that the reconciliation contract is about
Persisted(r) ==
  [plan_type |-> r.plan_type, status |-> r.status,
   current_period_start |-> r.current_period_start,
   current_period_end |-> r.current_period_end,
   stripe_subscription_id |-> r.stripe_subscription_id,
   stripe_customer_id |-> r.stripe_customer_id]

\* the statement createSubscription sends after the lookup returned
\* `existing` ({} for null) at instant t
CreateStmt(c, existing, t) ==
  IF existing # {} /\ (\E r \in existing : r.status = "active")
  THEN LET r == CHOOSE r \in existing : TRUE
       IN UpdateSubscriptionStmt(r.id, c.planType, c.sid, c.cid, t)
  ELSE IF existing # {}
  THEN LET r == CHOOSE r \in existing : TRUE
       IN CreateUpdateStmt(r.id, c.planType, c.sid, c.cid, t)
  ELSE CreateInsertStmt(c.userId, c.planType, c.sid, c.cid, t)

\* createSubscription(userId, planType, stripeSubscriptionId, stripeCustomerId)
\* is called, its lookup (getUserSubscription) is answered, and the call goes
\* on to its update or insert, which it awaits
CreateCall(p, userId, planType, sid, cid, outcome) ==
  LET c == [Idle EXCEPT !.pc = "write", !.op = "createSubscription",
              !.userId = userId, !.planType = planType,
              !.sid = sid, !.cid = cid]
  IN /\ Free(p)
     /\ nops < MaxOps
     /\ FirstUser(userId)
     /\ CanAnswer(userId, outcome)
     /\ \E existing \in getUserSubscription(userId, outcome) :
          calls' = [calls EXCEPT ![p] =
                      [c EXCEPT !.stmt = CreateStmt(c, existing, now)]]
     /\ nops' = nops + 1
     /\ overlap' = (overlap \/ InFlight # {})
     /\ readFailed' = (readFailed \/ outcome \in {"error", "throw"})
     /\ UNCHANGED <<now, ticks, subscriptions, lastWrite, access, webhook, calc,
                 pages>>

\* updateSubscription(subscriptionId, planType, ...) is called directly
UpdateCall(p, subscriptionId, planType, sid, cid) ==
  /\ Free(p)
  /\ nops < MaxOps
  /\ \E r \in subscriptions : r.id = subscriptionId
  /\ calls' = [calls EXCEPT ![p] =
       [Idle EXCEPT !.pc = "write", !.op = "updateSubscription",
          !.planType = planType, !.sid = sid, !.cid = cid,
          !.stmt = UpdateSubscriptionStmt(subscriptionId, planType,
                                          sid, cid, now)]]
  /\ nops' = nops + 1
  /\ overlap' = (overlap \/ InFlight # {})
  /\ UNCHANGED <<now, ticks, subscriptions, readFailed, lastWrite,
                 access, webhook, calc, pages>>

\* updateSubscriptionStatus(subscriptionId, status) is called
StatusCall(p, subscriptionId, status) ==
  /\ Free(p)
  /\ nops < MaxOps
  /\ \E r \in subscriptions : r.id = subscriptionId
  /\ calls' = [calls EXCEPT ![p] =
       [Idle EXCEPT !.pc = "write", !.op = "updateSubscriptionStatus",
          !.stmt = StatusStmt(subscriptionId, status, now)]]
  /\ nops' = nops + 1
  /\ overlap' = (overlap \/ InFlight # {})
  /\ UNCHANGED <<now, ticks, subscriptions, readFailed, lastWrite,
                 access, webhook, calc, pages>>

\* the store executes the statement of the call and the call returns
WriteOk(p) ==
  LET c == calls[p]
      stmt == c.stmt
      before == {r \in subscriptions : stmt.kind # "insert" /\ r.id = stmt.id}
      id == IF stmt.kind = "insert" THEN Cardinality(subscriptions) + 1 ELSE stmt.id
      ev == IF c.op = "createSubscription" THEN EventOf(c) ELSE NoEvent
  IN /\ c.pc = "write"
     /\ subscriptions' = Execute(stmt)
     /\ calls' = [calls EXCEPT ![p] = Idle]
     /\ lastWrite' =
          [id |-> id, ev |-> ev,
           repeat |-> ev # NoEvent /\ lastWrite.id = id /\ lastWrite.ev = ev,
           before |-> before]
     /\ UNCHANGED <<now, ticks, nops, overlap, readFailed, access, webhook, calc,
                 pages>>

\* the store answers the statement with an error and the call throws
WriteError(p) ==
  /\ calls[p].pc = "write"
  /\ calls' = [calls EXCEPT ![p] = Idle]
  /\ UNCHANGED <<now, ticks, subscriptions, nops, overlap, readFailed,
                 lastWrite, access, webhook, calc, pages>>

\* time passes
Tick(d) ==
  /\ ticks < MaxTicks
  /\ now' = now + d
  /\ ticks' = ticks + 1
  /\ UNCHANGED <<subscriptions, calls, nops, overlap, readFailed, lastWrite, access, webhook,
                 calc, pages>>

----------------------------------------------------------------------------
\* no decision has been returned yet
NoAccess ==
  [made |-> FALSE, userId |-> "", outcome |-> "", at |-> 0,
   decision |-> fallbackAccessCheck({}, 0)]

\* checkSubscriptionAccess(userId) is called and returns
CheckAccess(userId, outcome) ==
  /\ CanAnswer(userId, outcome)
  /\ \E d \in checkSubscriptionAccess(userId, outcome, now) :
       access' = [made |-> TRUE, userId |-> userId, outcome |-> outcome,
                  at |-> now, decision |-> d]
  /\ UNCHANGED <<now, ticks, subscriptions, calls, nops, overlap, readFailed,
                 lastWrite, webhook, calc, pages>>

\* the events a request can carry
WebhookEvents ==
  {ev \in [type : WebhookTypes, user_id : MetaUsers, plan_type : MetaPlans,
           subscription : StripeSubscriptions, customer : {"cus_1"},
           period : StripePeriods] :
     ev.type = "customer.subscription.deleted" => ev.subscription # Undefined}

\* no request has been served yet
NoWebhook ==
  [handled |-> FALSE, variant |-> "", lookup |-> "", gate |-> "",
   event |-> [type |-> "", user_id |-> Undefined, plan_type |-> Undefined,
              subscription |-> Undefined, customer |-> "", period |-> <<0, 0>>],
   retrieve |-> "", rpcOutcome |-> "", response |-> Response({}, 0, FALSE)]

\* a request is served by the webhook handler; a behaviour is followed up
\* to its first request
StripeWebhook(gate, ev, retrieve, rpcOutcome) ==
  /\ ~webhook.handled
  /\ webhook' = [handled |-> TRUE, variant |-> "index", lookup |-> "",
                 gate |-> gate, event |-> ev,
                 retrieve |-> retrieve, rpcOutcome |-> rpcOutcome,
                 response |-> Serve(gate, ev, retrieve, rpcOutcome, now)]
  /\ UNCHANGED <<now, ticks, subscriptions, calls, nops, overlap, readFailed,
                 lastWrite, access, calc, pages>>

\* a request is served by the helper version of the handler
StripeWebhookHelper(gate, ev, retrieve, rpcOutcome) ==
  /\ ~webhook.handled
  /\ webhook' = [handled |-> TRUE, variant |-> "helper", lookup |-> "",
                 gate |-> gate, event |-> ev,
                 retrieve |-> retrieve, rpcOutcome |-> rpcOutcome,
                 response |-> HelperServe(gate, ev, retrieve, rpcOutcome, now)]
  /\ UNCHANGED <<now, ticks, subscriptions, calls, nops, overlap, readFailed,
                 lastWrite, access, calc, pages>>

\* a request is served by the fallback version of the handler
StripeWebhookFallback(gate, ev, retrieve, lookup, rpcOutcome) ==
  /\ ~webhook.handled
  /\ webhook' = [handled |-> TRUE, variant |-> "fallback", lookup |-> lookup,
                 gate |-> gate, event |-> ev,
                 retrieve |-> retrieve, rpcOutcome |-> rpcOutcome,
                 response |-> FallbackServe(gate, ev, retrieve, lookup,
                                            rpcOutcome)]
  /\ UNCHANGED <<now, ticks, subscriptions, calls, nops, overlap, readFailed,
                 lastWrite, access, calc, pages>>

\* calculate_subscription_period_end(plan_type subscription_plan_type,
\* period_start) of the migration
calculate_subscription_period_end(plan_type, period_start) ==
  CASE plan_type = "trial" -> PgAddDays(period_start, 30)
    [] plan_type = "monthly" -> PgAddMonths(period_start, 1)
    [] plan_type = "semiannual" -> PgAddMonths(period_start, 6)
    [] plan_type = "annual" -> PgAddMonths(period_start, 12)
    [] OTHER -> PgAddMonths(period_start, 1)

\* calculate_subscription_period_end(plan_type text, period_start) of the
\* later script
calculate_subscription_period_end_text(plan_type, period_start) ==
  CASE plan_type = "trial" -> PgAddDays(period_start, 30)
    [] plan_type = "monthly" -> PgAddMonths(period_start, 1)
    [] plan_type = "semiannual" -> PgAddMonths(period_start, 6)
    [] plan_type = "annual" -> PgAddMonths(period_start, 12)
    [] OTHER -> PgAddDays(period_start, 30)

\* the calculators of the code
Calculators ==
  {"calculatePeriodEnd", "createSubscription", "updateSubscription",
   "calculate_subscription_period_end",
   "calculate_subscription_period_end_text"}

\* no calculator applied yet to the inputs start and planType
NoCalc == [applied |-> FALSE, by |-> "", start |-> 0, planType |-> "trial",
           end |-> 0]

\* one calculator computes the period end of the inputs
Applied(by, end) == [calc EXCEPT !.applied = TRUE, !.by = by, !.end = end]

WebhookHelperPeriod ==
  /\ calc' = Applied("calculatePeriodEnd",
                     calculatePeriodEnd(calc.start, calc.planType))
  /\ UNCHANGED <<now, ticks, subscriptions, calls, nops, overlap, readFailed,
                 lastWrite, access, webhook, pages>>

\* the switch of createSubscription, whose period start is the present
CreateSubscriptionPeriod ==
  /\ calc.start = now
  /\ calc' = Applied("createSubscription", CreatePeriodEnd(now, calc.planType))
  /\ UNCHANGED <<now, ticks, subscriptions, calls, nops, overlap, readFailed,
                 lastWrite, access, webhook, pages>>

\* the switch of updateSubscription
UpdateSubscriptionPeriod ==
  /\ calc.start = now
  /\ calc' = Applied("updateSubscription", UpdatePeriodEnd(now, calc.planType))
  /\ UNCHANGED <<now, ticks, subscriptions, calls, nops, overlap, readFailed,
                 lastWrite, access, webhook, pages>>

SqlPeriod ==
  /\ calc' = Applied("calculate_subscription_period_end",
       calculate_subscription_period_end(calc.planType, calc.start))
  /\ UNCHANGED <<now, ticks, subscriptions, calls, nops, overlap, readFailed,
                 lastWrite, access, webhook, pages>>

SqlTextPeriod ==
  /\ calc' = Applied("calculate_subscription_period_end_text",
       calculate_subscription_period_end_text(calc.planType, calc.start))
  /\ UNCHANGED <<now, ticks, subscriptions, calls, nops, overlap, readFailed,
                 lastWrite, access, webhook, pages>>

----------------------------------------------------------------------------
(* The super-admin dashboard: src/src/components/SuperAdminUI.tsx and the  *)
(* other version of the component (src/unnamed/part_001).  The session is  *)
(* two keys of local storage, super_admin_authenticated and                *)
(* super_admin_login_time, written by the login page.                      *)

HOUR == 60 * 60

\* the versions of the component
AdminVariants == {"SuperAdminUI", "part_001"}

\* the page before it is mounted; the session keys are absent
NoAdmin ==
  [variant |-> "SuperAdminUI", page |-> "loading", authenticated |-> FALSE,
   loginTime |-> {}, isAuthenticated |-> FALSE, fetched |-> {}]

\* hours since the stored login time exceed the limit of the version:
\* hoursSinceLogin < 8 keeps the session in SuperAdminUI.tsx,
\* hoursDiff > 24 ends it in the other version
Expired(variant, loginTime, t) ==
  IF variant = "SuperAdminUI" THEN ~(t - loginTime < 8 * HOUR)
  ELSE t - loginTime > 24 * HOUR

\* fetchAllData / loadDashboardData is called at instant t: whether both
\* keys are in local storage then, and the age of the login
DataFetched(a, t) ==
  [a EXCEPT !.fetched =
     {[at |-> t, keys |-> a.authenticated /\ a.loginTime # {},
       age |-> {t - l : l \in a.loginTime}]}]

\* the browser leaves for /super-admin-login, the keys removed or not
Redirected(a, removeKeys) ==
  [a EXCEPT !.page = "redirected", !.isAuthenticated = FALSE,
     !.authenticated = IF removeKeys THEN FALSE ELSE @,
     !.loginTime = IF removeKeys THEN {} ELSE @]

\* the component mounts: checkAuthentication (SuperAdminUI.tsx), whose
\* setIsAuthenticated(true) makes the data effect call fetchAllData, or the
\* authentication effect of the other version, which calls loadDashboardData
AdminMount ==
  /\ admin.page = "loading"
  /\ admin' =
       IF ~admin.authenticated \/ admin.loginTime = {}
       THEN Redirected(admin, FALSE)
       ELSE IF \E l \in admin.loginTime : Expired(admin.variant, l, now)
       THEN Redirected(admin, TRUE)
       ELSE DataFetched([admin EXCEPT !.page = "open",
                           !.isAuthenticated = (admin.variant = "SuperAdminUI")],
                        now)
  /\ UNCHANGED <<now, ticks, service, chat, auth>>

\* setActiveTab: the effect on [isAuthenticated, activeTab] of
\* SuperAdminUI.tsx calls fetchAllData when isAuthenticated
AdminChangeTab ==
  /\ admin.page = "open"
  /\ admin.variant = "SuperAdminUI"
  /\ admin.isAuthenticated
  /\ admin' = DataFetched(admin, now)
  /\ UNCHANGED <<now, ticks, service, chat, auth>>

\* the refresh button: onClick={fetchAllData} / onClick={loadDashboardData}
AdminRefresh ==
  /\ admin.page = "open"
  /\ admin' = DataFetched(admin, now)
  /\ UNCHANGED <<now, ticks, service, chat, auth>>

\* handleSignOut
AdminSignOut ==
  /\ admin.page = "open"
  /\ admin' = Redirected(admin, TRUE)
  /\ UNCHANGED <<now, ticks, service, chat, auth>>

----------------------------------------------------------------------------
(* The support chat of the admin dashboard, in its two versions.  A message
   stored by the server has a positive id, in the order of its created_at;
   the optimistic message of part_001 (id `temp-...`) has a negative one. *)

\* a.created_at of the message with this id
CreatedAt(id) == IF id < 0 THEN -id ELSE id

\* [...].sort((a, b) => created_at(a) - created_at(b)), a stable sort
RECURSIVE SortByCreatedAt(_)
SortByCreatedAt(s) ==
  IF s = <<>> THEN <<>>
  ELSE LET least(i) == \A j \in DOMAIN s :
                         /\ CreatedAt(s[i]) <= CreatedAt(s[j])
                         /\ CreatedAt(s[i]) = CreatedAt(s[j]) => i <= j
           i == CHOOSE k \in DOMAIN s : least(k)
       IN <<s[i]>> \o SortByCreatedAt(SubSeq(s, 1, i - 1)
                                        \o SubSeq(s, i + 1, Len(s)))

\* what getTicketMessages answers for a table holding the messages in S
getTicketMessages(S) ==
  CHOOSE s \in [1..Cardinality(S) -> S] :
    \A i, j \in DOMAIN s : i < j => s[i] < s[j]

\* the page before a ticket is selected: the messages shown, the messages the
\* server stores, the number of messages created so far, the INSERT events not
\* yet delivered to the callback, the answers of getTicketMessages on their
\* way, whether handleSendMessage is in its await and how sendMessage ended,
\* and the number of timers waiting to remove the optimistic messages
NoChat ==
  [variant |-> "SuperAdminUI", messages |-> <<>>, server |-> {}, created |-> 0,
   inbox |-> {}, fetching |-> {}, sending |-> FALSE, sent |-> "", timers |-> 0]

\* another party's message is inserted into the ticket; the channel of
\* subscribeToMessages gets its INSERT event
ChatInsert ==
  LET id == chat.created + 1
  IN /\ chat.created < MaxMessages
     /\ chat' = [chat EXCEPT !.created = id, !.server = @ \cup {id},
                             !.inbox = @ \cup {id}]
     /\ UNCHANGED <<now, ticks, service, admin, auth>>

\* the callback of subscribeToMessages runs on an INSERT event
ChatCallback ==
  /\ \E id \in chat.inbox :
       chat' =
         [chat EXCEPT
            !.inbox = @ \ {id},
            !.messages =
              IF chat.variant = "SuperAdminUI" THEN Append(@, id)
              ELSE IF \E i \in DOMAIN @ : @[i] = id THEN @
              ELSE SortByCreatedAt(Append(@, id))]
  /\ UNCHANGED <<now, ticks, service, admin, auth>>

\* fetchMessages resumes with the answer of getTicketMessages
ChatFetchReturn ==
  /\ \E answer \in chat.fetching :
       chat' =
         [chat EXCEPT
            !.fetching = @ \ {answer},
            !.messages = IF chat.variant = "SuperAdminUI" THEN answer
                         ELSE SortByCreatedAt(answer)]
  /\ UNCHANGED <<now, ticks, service, admin, auth>>

\* handleSendMessage up to its await: part_001 shows the optimistic message;
\* the server executes sendMessage with the given outcome
ChatSend(outcome) ==
  LET temp == chat.created + 1
      shown == [chat EXCEPT
                  !.sending = TRUE, !.sent = outcome,
                  !.created = IF chat.variant = "part_001" THEN temp ELSE @,
                  !.messages =
                    IF chat.variant = "part_001" THEN Append(@, -temp) ELSE @]
      id == shown.created + 1
  IN /\ ~chat.sending
     /\ chat.created + 2 <= MaxMessages
     /\ chat' = IF outcome = "ok"
                THEN [shown EXCEPT !.created = id, !.server = @ \cup {id},
                                   !.inbox = @ \cup {id}]
                ELSE shown
     /\ UNCHANGED <<now, ticks, service, admin, auth>>

\* handleSendMessage resumes after sendMessage: SuperAdminUI calls
\* fetchMessages, part_001 sets the timer that removes the optimistic
\* messages; in the catch block part_001 removes them at once
ChatSendReturn ==
  /\ chat.sending
  /\ chat' =
       IF chat.variant = "SuperAdminUI"
       THEN [chat EXCEPT
               !.sending = FALSE, !.sent = "",
               !.fetching = IF chat.sent = "ok"
                            THEN @ \cup {getTicketMessages(chat.server)} ELSE @]
       ELSE [chat EXCEPT
               !.sending = FALSE, !.sent = "",
               !.timers = IF chat.sent = "ok" THEN @ + 1 ELSE @,
               !.messages = IF chat.sent = "ok" THEN @
                            ELSE SelectSeq(@, LAMBDA m : m > 0)]
  /\ UNCHANGED <<now, ticks, service, admin, auth>>

\* the timer of handleSendMessage removes the optimistic messages
ChatTimeout ==
  /\ chat.timers > 0
  /\ chat' = [chat EXCEPT !.timers = @ - 1,
                          !.messages = SelectSeq(@, LAMBDA m : m > 0)]
  /\ UNCHANGED <<now, ticks, service, admin, auth>>

----------------------------------------------------------------------------
(* AuthProvider.  user and restaurant are {} for null; a restaurant is *)
(* named by its owner.                                                  *)

\* the provider before a session is known: the state of the hooks, the
\* owners that have a row in the restaurants table, and the calls of
\* fetchRestaurant and createDefaultRestaurant waiting in an await
NoAuth == [user |-> {}, restaurant |-> {}, restaurants |-> {}, pending |-> {}]

\* the callback of onAuthStateChange (and getInitialSession resuming) with
\* the user of the session, {} when there is no session
AuthStateChange(sessionUser) ==
  /\ auth' =
       IF sessionUser # {}
       THEN [auth EXCEPT
               !.user = sessionUser,
               !.pending = @ \cup {[userId |-> u, at |-> "fetchRestaurant"] :
                                     u \in sessionUser}]
       ELSE [auth EXCEPT !.user = {}, !.restaurant = {}]
  /\ UNCHANGED <<now, ticks, service, admin, chat>>

\* signOut: the local state is cleared before supabase.auth.signOut()
AuthSignOut ==
  /\ auth.user # {}
  /\ auth' = [auth EXCEPT !.user = {}, !.restaurant = {}]
  /\ UNCHANGED <<now, ticks, service, admin, chat>>

\* fetchRestaurant(userId) resumes with the answer of its query
FetchRestaurantReturn(userId, outcome) ==
  LET call == [userId |-> userId, at |-> "fetchRestaurant"]
  IN /\ call \in auth.pending
     /\ auth' =
          IF outcome = "ok" /\ userId \in auth.restaurants
          THEN [auth EXCEPT !.pending = @ \ {call}, !.restaurant = {userId}]
          ELSE [auth EXCEPT
                  !.pending = (@ \ {call})
                     \cup {[userId |-> userId, at |-> "existing"]}]
     /\ UNCHANGED <<now, ticks, service, admin, chat>>

\* createDefaultRestaurant(userId) resumes with the answer of its first
\* query, whose error it does not look at
CreateDefaultRestaurantCheck(userId, outcome) ==
  LET call == [userId |-> userId, at |-> "existing"]
  IN /\ call \in auth.pending
     /\ auth' =
          IF outcome = "ok" /\ userId \in auth.restaurants
          THEN [auth EXCEPT !.pending = @ \ {call}, !.restaurant = {userId}]
          ELSE [auth EXCEPT
                  !.pending = (@ \ {call})
                     \cup {[userId |-> userId, at |-> "insert"]}]
     /\ UNCHANGED <<now, ticks, service, admin, chat>>

\* createDefaultRestaurant(userId) resumes with the answer of its insert;
\* on the duplicate error 23505 it reads the existing restaurant
CreateDefaultRestaurantInsert(userId, outcome) ==
  LET call == [userId |-> userId, at |-> "insert"]
  IN /\ call \in auth.pending
     /\ outcome = "23505" => userId \in auth.restaurants
     /\ auth' =
          CASE outcome = "ok" ->
                 [auth EXCEPT !.pending = @ \ {call},
                              !.restaurants = @ \cup {userId},
                              !.restaurant = {userId}]
            [] outcome = "23505" ->
                 [auth EXCEPT !.pending = @ \ {call}, !.restaurant = {userId}]
            [] OTHER -> [auth EXCEPT !.pending = @ \ {call}]
     /\ UNCHANGED <<now, ticks, service, admin, chat>>


Init ==
  /\ now = 0
  /\ ticks = 0
  /\ subscriptions = {}
  /\ calls = [p \in Procs |-> Idle]
  /\ nops = 0
  /\ overlap = FALSE
  /\ readFailed = FALSE
  /\ lastWrite = NoWrite
  /\ access = NoAccess
  /\ webhook = NoWebhook
  /\ calc = NoCalc
  /\ admin = NoAdmin
  /\ chat = NoChat
  /\ auth = NoAuth

Next ==
  \/ \E p \in Procs, u \in Users, in \in CallInputs, o \in ReadOutcomes :
       CreateCall(p, u, in[1], in[2], in[3], o)
  \/ \E p \in Procs, r \in subscriptions, in \in CallInputs :
       UpdateCall(p, r.id, in[1], in[2], in[3])
  \/ \E p \in Procs, r \in subscriptions, s \in Statuses :
       StatusCall(p, r.id, s)
  \/ \E p \in Procs : WriteOk(p)
  \/ \E p \in Procs : WriteError(p)
  \/ \E d \in Steps : Tick(d)

Spec == Init /\ [][Next]_vars

----------------------------------------------------------------------------
(* The access evaluator is a function of the row read and of the clock.    *)
(* AccessSpec evaluates it on a table that holds no row or one row of user *)
(* "u1", of any status and plan, whose period ends around the present.     *)

\* the present at the start
T0 == 30 * DAY

\* period ends of the stored row
AccessEnds == {T0 - DAY, T0 - 1, T0, T0 + 1, T0 + DAY, T0 + DAY + 1, T0 + 30 * DAY}

\* a row as createSubscription inserted it, with the status set since
AccessRow(status, planType, periodEnd) ==
  LET start == periodEnd - (CreatePeriodEnd(0, planType) - 0)
  IN [id |-> 1, user_id |-> "u1", plan_type |-> planType, status |-> status,
      stripe_subscription_id |-> Undefined, stripe_customer_id |-> Undefined,
      current_period_start |-> start, current_period_end |-> periodEnd,
      created_at |-> start, updated_at |-> start]

AccessInit ==
  /\ now = T0
  /\ ticks = 0
  /\ subscriptions \in
       {{}} \cup {{AccessRow(st, pl, e)} :
                    st \in Statuses, pl \in PlanKinds, e \in AccessEnds}
  /\ calls = [p \in Procs |-> Idle]
  /\ nops = 0
  /\ overlap = FALSE
  /\ readFailed = FALSE
  /\ lastWrite = NoWrite
  /\ access = NoAccess
  /\ webhook = NoWebhook
  /\ calc = NoCalc
  /\ admin = NoAdmin
  /\ chat = NoChat
  /\ auth = NoAuth

AccessNext ==
  \/ \E u \in Users, o \in ReadOutcomes : CheckAccess(u, o)
  \/ \E d \in Steps : Tick(d)

AccessSpec == AccessInit /\ [][AccessNext]_vars

----------------------------------------------------------------------------
(* RaceSpec: the service calls of Spec, started when user "u1" already has *)
(* the trial row that sign-up created, so that two calls on that row can   *)
(* overlap.                                                                *)

RaceInit ==
  /\ now = 0
  /\ ticks = 0
  /\ subscriptions = {AccessRow("active", "trial", CreatePeriodEnd(0, "trial"))}
  /\ calls = [p \in Procs |-> Idle]
  /\ nops = 0
  /\ overlap = FALSE
  /\ readFailed = FALSE
  /\ lastWrite = NoWrite
  /\ access = NoAccess
  /\ webhook = NoWebhook
  /\ calc = NoCalc
  /\ admin = NoAdmin
  /\ chat = NoChat
  /\ auth = NoAuth

RaceSpec == RaceInit /\ [][Next]_vars

----------------------------------------------------------------------------
(* LifecycleSpec: one operation on a table of two rows, the row of user    *)
(* "u1", which starts in any status, and the active row of user "u2": a    *)
(* service call, or an event delivered to the webhook handler.             *)

LifecycleInit ==
  /\ now = 0
  /\ ticks = 0
  /\ subscriptions \in
       {{AccessRow(st, "annual", CreatePeriodEnd(0, "annual")),
         [AccessRow("active", "monthly", CreatePeriodEnd(0, "monthly"))
            EXCEPT !.id = 2, !.user_id = "u2"]} : st \in Statuses}
  /\ calls = [p \in Procs |-> Idle]
  /\ nops = 0
  /\ overlap = FALSE
  /\ readFailed = FALSE
  /\ lastWrite = NoWrite
  /\ access = NoAccess
  /\ webhook = NoWebhook
  /\ calc = NoCalc
  /\ admin = NoAdmin
  /\ chat = NoChat
  /\ auth = NoAuth

\* no operation has started yet
Untouched == nops = 0 /\ ~webhook.handled

LifecycleNext ==
  \/ \E p \in Procs, u \in Users, in \in CallInputs, o \in ReadOutcomes :
       Untouched /\ CreateCall(p, u, in[1], in[2], in[3], o)
  \/ \E p \in Procs, r \in subscriptions, in \in CallInputs :
       Untouched /\ UpdateCall(p, r.id, in[1], in[2], in[3])
  \/ \E p \in Procs, r \in subscriptions, s \in Statuses :
       Untouched /\ StatusCall(p, r.id, s)
  \/ \E p \in Procs : WriteOk(p)
  \/ \E p \in Procs : WriteError(p)
  \/ \E ev \in WebhookEvents, rt \in RetrieveOutcomes, ro \in RpcOutcomes :
       Untouched /\ StripeWebhook("ok", ev, rt, ro)
  \/ \E d \in Steps : Tick(d)

LifecycleSpec == LifecycleInit /\ [][LifecycleNext]_vars

----------------------------------------------------------------------------
(* AdminSpec: the dashboard is opened some time after a login at instant 0 *)
(* (or with one or both keys missing) and stays open while time passes.    *)

\* the age of the login when the page is opened
AdminTimes ==
  {0, 8 * HOUR - 1, 8 * HOUR, 24 * HOUR - 1, 24 * HOUR, 24 * HOUR + 1}

AdminInit ==
  /\ now \in AdminTimes
  /\ ticks = 0
  /\ subscriptions = {}
  /\ calls = [p \in Procs |-> Idle]
  /\ nops = 0
  /\ overlap = FALSE
  /\ readFailed = FALSE
  /\ lastWrite = NoWrite
  /\ access = NoAccess
  /\ webhook = NoWebhook
  /\ calc = NoCalc
  /\ \E v \in AdminVariants, k \in BOOLEAN, l \in {{}, {0}} :
       admin = [NoAdmin EXCEPT !.variant = v, !.authenticated = k,
                               !.loginTime = l]
  /\ chat = NoChat
  /\ auth = NoAuth

AdminNext ==
  \/ AdminMount
  \/ AdminChangeTab
  \/ AdminRefresh
  \/ AdminSignOut
  \/ \E d \in Steps : Tick(d)

AdminSpec == AdminInit /\ [][AdminNext]_vars

----------------------------------------------------------------------------
(* AuthSpec: the provider is mounted; sessions come and go.  One of the *)
(* users has a restaurant already.                                      *)

AuthInit ==
  /\ now = 0
  /\ ticks = 0
  /\ subscriptions = {}
  /\ calls = [p \in Procs |-> Idle]
  /\ nops = 0
  /\ overlap = FALSE
  /\ readFailed = FALSE
  /\ lastWrite = NoWrite
  /\ access = NoAccess
  /\ webhook = NoWebhook
  /\ calc = NoCalc
  /\ admin = NoAdmin
  /\ chat = NoChat
  /\ auth = [NoAuth EXCEPT !.restaurants = {"u1"}]

AuthNext ==
  \/ \E s \in {{}} \cup {{u} : u \in Users} : AuthStateChange(s)
  \/ AuthSignOut
  \/ \E u \in Users, o \in {"ok", "error"} : FetchRestaurantReturn(u, o)
  \/ \E u \in Users, o \in {"ok", "error"} : CreateDefaultRestaurantCheck(u, o)
  \/ \E u \in Users, o \in {"ok", "23505", "error"} :
       CreateDefaultRestaurantInsert(u, o)

AuthSpec == AuthInit /\ [][AuthNext]_vars

----------------------------------------------------------------------------
(* ChatSpec: a ticket has just been selected in one of the two versions of *)
(* the dashboard: fetchMessages is on its way and the channel is subscribed. *)

ChatInit ==
  /\ now = 0
  /\ ticks = 0
  /\ subscriptions = {}
  /\ calls = [p \in Procs |-> Idle]
  /\ nops = 0
  /\ overlap = FALSE
  /\ readFailed = FALSE
  /\ lastWrite = NoWrite
  /\ access = NoAccess
  /\ webhook = NoWebhook
  /\ calc = NoCalc
  /\ admin = NoAdmin
  /\ \E v \in AdminVariants, S \in {{}, {1}} :
       chat = [NoChat EXCEPT !.variant = v, !.server = S,
                             !.created = Cardinality(S),
                             !.fetching = {getTicketMessages(S)}]
  /\ auth = NoAuth

ChatNext ==
  \/ ChatInsert
  \/ ChatCallback
  \/ ChatFetchReturn
  \/ \E outcome \in {"ok", "error"} : ChatSend(outcome)
  \/ ChatSendReturn
  \/ ChatTimeout

ChatSpec == ChatInit /\ [][ChatNext]_vars

----------------------------------------------------------------------------
(* CalcSpec: every period-end calculator is applied to a start instant and *)
(* a plan.  The starts are days of the month that not every month has, the *)
(* ends of months and of years, in common and in leap years, at midnight   *)
(* and during the day.                                                     *)

CalcDates ==
  {<<2025, 0, 15>>, <<2025, 0, 29>>, <<2025, 0, 30>>, <<2025, 0, 31>>,
   <<2025, 2, 31>>, <<2025, 7, 31>>, <<2025, 9, 31>>, <<2025, 11, 31>>,
   <<2027, 1, 28>>, <<2027, 7, 31>>, <<2028, 1, 29>>}

CalcTimes == {0, 12 * 60 * 60 + 1}

CalcStarts == {Instant(d[1], d[2], d[3], t) : d \in CalcDates, t \in CalcTimes}

CalcInit ==
  /\ now \in CalcStarts
  /\ ticks = 0
  /\ subscriptions = {}
  /\ calls = [p \in Procs |-> Idle]
  /\ nops = 0
  /\ overlap = FALSE
  /\ readFailed = FALSE
  /\ lastWrite = NoWrite
  /\ access = NoAccess
  /\ webhook = NoWebhook
  /\ \E pl \in PlanKinds : calc = [NoCalc EXCEPT !.start = now, !.planType = pl]
  /\ admin = NoAdmin
  /\ chat = NoChat
  /\ auth = NoAuth

CalcNext ==
  \/ WebhookHelperPeriod
  \/ CreateSubscriptionPeriod
  \/ UpdateSubscriptionPeriod
  \/ SqlPeriod
  \/ SqlTextPeriod

CalcSpec == CalcInit /\ [][CalcNext]_vars

----------------------------------------------------------------------------
(* WebhookSpec: one request is served, by any version of the handler, at   *)
(* any time, while the table is empty or holds the row of user "u1" with   *)
(* the customer id of the event.  A handler keeps nothing from one request *)
(* to the next, so every request is the first of a behaviour.              *)

\* a request that is turned away before its event is dispatched
NotDispatched ==
  [type |-> "checkout.session.completed", user_id |-> "u1",
   plan_type |-> "annual", subscription |-> "sub_1", customer |-> "cus_1",
   period |-> <<0, 30 * DAY>>]

\* the row createSubscription('u1', 'monthly', 'sub_1', 'cus_1') inserted
WebhookRow ==
  [id |-> 1, user_id |-> "u1", plan_type |-> "monthly", status |-> "active",
   stripe_subscription_id |-> "sub_1", stripe_customer_id |-> "cus_1",
   current_period_start |-> 0, current_period_end |-> CreatePeriodEnd(0, "monthly"),
   created_at |-> 0, updated_at |-> 0]

WebhookInit ==
  /\ now = 0
  /\ ticks = 0
  /\ subscriptions \in {{}, {WebhookRow}}
  /\ calls = [p \in Procs |-> Idle]
  /\ nops = 0
  /\ overlap = FALSE
  /\ readFailed = FALSE
  /\ lastWrite = NoWrite
  /\ access = NoAccess
  /\ webhook = NoWebhook
  /\ calc = NoCalc
  /\ admin = NoAdmin
  /\ chat = NoChat
  /\ auth = NoAuth

WebhookNext ==
  \/ \E ev \in WebhookEvents, rt \in RetrieveOutcomes, ro \in RpcOutcomes :
       StripeWebhook("ok", ev, rt, ro)
  \/ \E g \in WebhookGates \ {"ok"} : StripeWebhook(g, NotDispatched, "ok", "ok")
  \/ \E ev \in WebhookEvents, rt \in RetrieveOutcomes, ro \in RpcOutcomes :
       StripeWebhookHelper("ok", ev, rt, ro)
  \/ \E g \in WebhookGates \ {"ok"} :
       StripeWebhookHelper(g, NotDispatched, "ok", "ok")
  \/ \E ev \in WebhookEvents, rt \in RetrieveOutcomes, lk \in LookupOutcomes,
        ro \in RpcOutcomes :
       StripeWebhookFallback("ok", ev, rt, lk, ro)
  \/ \E g \in WebhookGates \ {"ok"} :
       StripeWebhookFallback(g, NotDispatched, "ok", "ok", "ok")
  \/ \E d \in Steps : Tick(d)

WebhookSpec == WebhookInit /\ [][WebhookNext]_vars

----------------------------------------------------------------------------
(* Claims about the service and the store, checked under Spec. *)

\* the row the last write wrote, as it is now
LastWritten == {r \in subscriptions : r.id = lastWrite.id}

\* C1: reconciliation is idempotent: when createSubscription is applied a
\* second time with the same event (user, plan, external ids), one call after
\* the other, the persisted plan, status, period start, period end and
\* external ids are after the second application what they were after the
\* first.
C1_ReconcileIdempotent ==
  (~overlap /\ lastWrite.repeat) =>
    \A b \in lastWrite.before, a \in LastWritten : Persisted(a) = Persisted(b)

\* C2: after any sequence of createSubscription calls that do not overlap,
\* for users who start without a subscription, no user has more than one
\* row: the first call inserts and every later call updates that row.
C2_SingleRowSequential ==
  ~overlap => \A u \in Users : Cardinality(RowsOf(u)) <= 1

\* C3: also when createSubscription calls for one user overlap (lookup and
\* write of one call interleave with those of another), and every lookup
\* succeeds, no user has more than one row.
C3_SingleRowConcurrent ==
  ~readFailed => \A u \in Users : Cardinality(RowsOf(u)) <= 1

\* C4: the period end of a subscription only moves forward: a write that is
\* not a cancellation never leaves a row with a period end earlier than the
\* one it had.
C4_PeriodEndMonotonic ==
  \A b \in lastWrite.before, a \in LastWritten :
    a.status # "cancelled" => a.current_period_end >= b.current_period_end

\* C5: a call whose plan is none of trial, monthly, semiannual, annual makes
\* no write: no stored row carries such a plan (and none a period computed
\* from a default length).
C5_InvalidPlanRejected ==
  \A r \in subscriptions : r.plan_type \in PlanKinds

\* C25: a failed lookup never creates a duplicate: when the lookup of a
\* createSubscription call fails (getUserSubscription returns null on a read
\* error) for a user who has a row, the call does not go on to insert a
\* second row for that user.
C25_FailedLookupNoInsert ==
  [][\A p \in Procs :
       (/\ calls[p].pc = "idle"
        /\ calls'[p].op = "createSubscription"
        /\ ~readFailed /\ readFailed'
        /\ RowsOf(calls'[p].userId) # {})
       => calls'[p].stmt.kind # "insert"]_vars

\* C26: createSubscription(userId, 'trial'), the call sign-up makes in the
\* background, never replaces the plan of an existing active paid
\* subscription: a write of such a call to a row that was active with a
\* paid plan leaves the plan as it was.
C26_TrialKeepsPaidPlan ==
  lastWrite.ev.planType = "trial" =>
    \A b \in lastWrite.before, a \in LastWritten :
      (b.status = "active" /\ b.plan_type # "trial")
        => a.plan_type = b.plan_type

\* C11: every row of the table satisfies
\* current_period_end = computePeriodEnd(current_period_start, plan_type),
\* with the period length the service itself adds, after any sequence of
\* createSubscription and updateSubscription calls.
C11_PeriodEndDerived ==
  \A r \in subscriptions :
    r.current_period_end = CreatePeriodEnd(r.current_period_start, r.plan_type)

\* C18: updated_at never decreases for any row, under any interleaving of
\* createSubscription, updateSubscription and updateSubscriptionStatus: no
\* write leaves a row with an updated_at earlier than the one it had.
C18_UpdatedAtMonotonic ==
  \A b \in lastWrite.before, a \in LastWritten : a.updated_at >= b.updated_at

----------------------------------------------------------------------------
(* Claims about status transitions, checked under LifecycleSpec. *)

\* the row with the given id after a step
RowAfter(id) == {r \in subscriptions' : r.id = id}

C27_UpdateFrame ==
  [][\A p \in Procs :
       (WriteOk(p) /\ calls[p].stmt.kind = "updateSubscription")
       => LET id == calls[p].stmt.id
          IN /\ {r \in subscriptions' : r.id # id}
                  = {r \in subscriptions : r.id # id}
             /\ Cardinality(subscriptions') = Cardinality(subscriptions)
             /\ \A b \in {r \in subscriptions : r.id = id} :
                  \E a \in RowAfter(id) :
                    /\ a.user_id = b.user_id
                    /\ a.created_at = b.created_at
                    /\ a.current_period_start = b.current_period_start
                    /\ a.status = "active"
    ]_vars

\* updateSubscription has changed the plan of one of two rows some time
\* after its period started
C27_Witness ==
  /\ Cardinality(subscriptions) >= 2
  /\ \E b \in lastWrite.before, a \in LastWritten :
       /\ a.plan_type # b.plan_type
       /\ a.current_period_start = b.current_period_start
       /\ a.updated_at > a.current_period_start

----------------------------------------------------------------------------
(* Claims about the access evaluator, checked under AccessSpec. *)

\* the decision made for a failed read, and for a user without a row
FailOpen ==
  [hasAccess |-> TRUE, subscription |-> {},
   features |-> [maxCustomers |-> 100, maxBranches |-> 1,
                 advancedAnalytics |-> FALSE, prioritySupport |-> FALSE,
                 customBranding |-> FALSE, apiAccess |-> FALSE],
   daysRemaining |-> 30]

\* C7: checkSubscriptionAccess returns a decision for every outcome of the
\* read, and when the read fails (an error result or a thrown exception) the
\* decision is hasAccess = true, subscription = null, trial features and 30
\* days remaining, whatever subscription the user has stored.
C7_AccessFailsOpen ==
  /\ \A u \in Users, o \in ReadOutcomes : checkSubscriptionAccess(u, o, now) # {}
  /\ (access.made /\ access.outcome \in {"error", "throw"}) =>
       access.decision = FailOpen

\* a read failed for a user whose stored subscription is expired
C7_Witness ==
  /\ access.made
  /\ access.outcome \in {"error", "throw"}
  /\ \E r \in RowsOf(access.userId) : r.status = "expired"
  /\ access.decision.hasAccess

\* C8: for a subscription on record, hasAccess is true exactly when the
\* status is active and the instant of the check is strictly before the
\* period end: never for expired, cancelled or past_due rows, and not at
\* now = period_end.
C8_AccessIffActiveBeforeEnd ==
  access.made =>
    \A r \in access.decision.subscription :
      access.decision.hasAccess <=>
        (r.status = "active" /\ access.at < r.current_period_end)

\* an active row checked at the very instant its period ends
C8_Witness ==
  /\ access.made
  /\ \E r \in access.decision.subscription :
       r.status = "active" /\ r.current_period_end = access.at
  /\ ~access.decision.hasAccess

\* C9: for a subscription on record, daysRemaining is
\* max(0, ceil((period_end - now) / one day)): never negative, 0 once the
\* period has ended, and otherwise the least number of whole days that
\* cover the time left.
C9_DaysRemaining ==
  access.made =>
    \A r \in access.decision.subscription :
      LET left == r.current_period_end - access.at
          days == access.decision.daysRemaining
      IN /\ days >= 0
         /\ left <= 0 => days = 0
         /\ left > 0 => (days - 1) * DAY < left /\ left <= days * DAY
         /\ left = -1 => days = 0
         /\ left = DAY => days = 1

\* a row whose period ends one second more than a day ahead: two days
C9_Witness ==
  /\ access.made
  /\ \E r \in access.decision.subscription :
       r.current_period_end - access.at = DAY + 1
  /\ access.decision.daysRemaining = 2

\* C28: for every subscription on record and every instant of the check,
\* the decision is consistent: hasAccess = true implies daysRemaining >= 1,
\* and a period end at or before the instant of the check implies
\* hasAccess = false and daysRemaining = 0.
C28_DecisionConsistent ==
  access.made =>
    \A r \in access.decision.subscription :
      /\ access.decision.hasAccess => access.decision.daysRemaining >= 1
      /\ r.current_period_end <= access.at =>
           ~access.decision.hasAccess /\ access.decision.daysRemaining = 0

\* an active row checked one second before its period ends: access, one day
C28_Witness ==
  /\ access.made
  /\ \E r \in access.decision.subscription :
       r.status = "active" /\ r.current_period_end = access.at + 1
  /\ access.decision.hasAccess
  /\ access.decision.daysRemaining = 1

\* C10: when the user has no subscription row, the decision is hasAccess =
\* true with the trial features and exactly 30 days remaining, at any time
\* and whatever dates the table holds.
C10_NoSubscriptionGrace ==
  (access.made /\ access.outcome \in {"ok", "PGRST116"}
     /\ RowsOf(access.userId) = {}) =>
    access.decision = FailOpen

\* a user without a row is checked, after the clock has advanced, while the
\* table holds another user's row
C10_Witness ==
  /\ access.made
  /\ access.outcome = "ok"
  /\ RowsOf(access.userId) = {}
  /\ subscriptions # {}
  /\ access.at > T0

----------------------------------------------------------------------------
(* Claims about the webhook handler, checked under WebhookSpec. *)

\* C6: when a handled billing event carries no resolvable user reference,
\* the handler reports a failure to its caller: the response is never the
\* success response (status 200, processed: true).
C6_MissingUserReported ==
  (/\ webhook.handled
   /\ webhook.gate = "ok"
   /\ webhook.event.type \in HandledTypes
   /\ webhook.event.user_id = Undefined) =>
    webhook.response.status # 200 /\ ~webhook.response.processed

\* a count of -1 stands for "unlimited"
Unlimited == -1

\* all four flags of a feature set are on
AllFlags(f) ==
  f.advancedAnalytics /\ f.prioritySupport /\ f.customBranding /\ f.apiAccess

\* C19 as stated: the features of a trial or monthly subscription have
\* bounded customer and branch counts and not all flags on; those of a
\* semiannual or annual subscription have unlimited counts and all four
\* flags on.
C19_MonthlyBounded ==
  access.made =>
    \A r \in access.decision.subscription :
      LET f == access.decision.features
      IN /\ r.plan_type \in {"trial", "monthly"} =>
              f.maxCustomers >= 0 /\ f.maxBranches >= 0 /\ ~AllFlags(f)
         /\ r.plan_type \in {"semiannual", "annual"} =>
              f.maxCustomers = Unlimited /\ f.maxBranches = Unlimited
                /\ AllFlags(f)

\* C19, amended: trial has bounded counts (100 customers, 1 branch) and no
\* flag on; monthly has unlimited counts, advanced analytics and priority
\* support on, custom branding and API access off; semiannual and annual
\* have unlimited counts and all four flags on.
C19_PlanFeatures ==
  access.made =>
    \A r \in access.decision.subscription :
      LET f == access.decision.features
      IN /\ r.plan_type = "trial" =>
              /\ f.maxCustomers = 100 /\ f.maxBranches = 1
              /\ ~f.advancedAnalytics /\ ~f.prioritySupport
              /\ ~f.customBranding /\ ~f.apiAccess
         /\ r.plan_type = "monthly" =>
              /\ f.maxCustomers = Unlimited /\ f.maxBranches = Unlimited
              /\ f.advancedAnalytics /\ f.prioritySupport
              /\ ~f.customBranding /\ ~f.apiAccess
         /\ r.plan_type \in {"semiannual", "annual"} =>
              /\ f.maxCustomers = Unlimited /\ f.maxBranches = Unlimited
              /\ AllFlags(f)

\* the features of a monthly subscription were returned
C19_Witness ==
  /\ access.made
  /\ \E r \in access.decision.subscription : r.plan_type = "monthly"
  /\ access.decision.features.maxCustomers = Unlimited
  /\ ~access.decision.features.apiAccess

----------------------------------------------------------------------------
(* Claims about the period-end calculators, checked under CalcSpec. *)

\* C12: every period-end calculator returns an instant strictly later than
\* the start instant, for each of the plan kinds trial, monthly, semiannual
\* and annual (each is a function of start and plan, so deterministic).
C12_PeriodEndAfterStart ==
  calc.applied => calc.end > calc.start

\* the calculators that add calendar months
MonthAdders ==
  {"calculatePeriodEnd", "calculate_subscription_period_end",
   "calculate_subscription_period_end_text"}

\* the last day of the month after that of instant t, at t's time of day
EndOfNextMonth(t) ==
  LET m == MonthFromTime(t) + 1
      ym == YearFromTime(t) + (m \div 12)
      mn == m % 12
  IN Instant(ym, mn, DaysInMonth(ym, mn), TimeWithinDay(t))

\* C13: month addition clamps to the last valid day of the target month:
\* for a monthly plan whose start falls on a day of the month that the
\* following month does not have (2025-01-31), the period end is the last
\* day of the following month (2025-02-28), never a day of the month after.
C13_MonthAdditionClamps ==
  (/\ calc.applied
   /\ calc.by \in MonthAdders
   /\ calc.planType = "monthly"
   /\ DateFromTime(calc.start) > DateFromTime(EndOfNextMonth(calc.start)))
  => calc.end = EndOfNextMonth(calc.start)

\* the calendar months of a paid plan
CalendarMonths(planType) ==
  CASE planType = "monthly" -> 1
    [] planType = "semiannual" -> 6
    [] planType = "annual" -> 12

\* C14: for monthly, semiannual and annual every period-end computation
\* (client service, webhook helper, SQL function) adds 1, 6 and 12 calendar
\* months to the start, none a fixed 30, 180 or 365 days, so that all agree.
\* Stated for starts on a day of the month that every month has, where the
\* result of adding calendar months does not depend on a clamping policy.
C14_CalendarMonthsEverywhere ==
  (/\ calc.applied
   /\ calc.planType \in {"monthly", "semiannual", "annual"}
   /\ DateFromTime(calc.start) <= 28)
  => calc.end = PgAddMonths(calc.start, CalendarMonths(calc.planType))

----------------------------------------------------------------------------
(* Claims about all versions of the webhook handler, under WebhookSpec. *)

\* an event was dispatched to the switch of a handler
Dispatched == webhook.handled /\ webhook.gate = "ok"

\* C15: after a customer.subscription.deleted event for a user with a stored
\* subscription is handled, the stored status is cancelled: the handler asks
\* handle_subscription_webhook, the one writer it has, to set that user's
\* status to cancelled.
C15_DeletedCancels ==
  (/\ Dispatched
   /\ webhook.event.type = "customer.subscription.deleted"
   /\ webhook.event.user_id # Undefined
   /\ RowsOf(webhook.event.user_id) # {})
  => \E c \in webhook.response.rpc :
       c.p_user_id = webhook.event.user_id /\ c.p_status = "cancelled"

\* C16: every status value a webhook handler writes is one of active,
\* expired, cancelled, past_due.
C16_StatusInDomain ==
  Dispatched => \A c \in webhook.response.rpc : c.p_status \in Statuses

\* C17: whenever the write to the store returns an error while an event of
\* a handled type is processed, the failure is propagated: the webhook
\* answers with a non-success response.
C17_StoreErrorPropagated ==
  (/\ Dispatched
   /\ webhook.event.type \in HandledTypes
   /\ webhook.response.rpc # {}
   /\ webhook.rpcOutcome = "error")
  => webhook.response.status # 200

\* C20: in every version of the handler and for every handled event type,
\* no handle_subscription_webhook call is made when the event carries no
\* user id and no lookup of the table by customer id resolves one.
C20_NoUserNoWrite ==
  (/\ Dispatched
   /\ webhook.event.type \in HandledTypes
   /\ webhook.event.user_id = Undefined
   /\ \A lk \in LookupOutcomes :
        LookupByCustomer(webhook.event.customer, lk) = {})
  => webhook.response.rpc = {}

\* C24: when an invoice.payment_succeeded event lacks user or plan
\* metadata and a stored subscription has the event's customer id, the
\* event is applied to that subscription's user and plan; when no such
\* subscription exists the event is dropped without a write.  Stated for
\* events whose Stripe subscription is retrieved and, where the handler
\* reads the table, whose read succeeds.
C24_FallbackByCustomer ==
  (/\ Dispatched
   /\ webhook.event.type = "invoice.payment_succeeded"
   /\ webhook.event.subscription # Undefined
   /\ webhook.retrieve = "ok"
   /\ webhook.lookup # "error"
   /\ (webhook.event.user_id = Undefined \/ webhook.event.plan_type = Undefined))
  => LET found == LookupByCustomer(webhook.event.customer, "ok")
     IN IF found # {}
        THEN \A r \in found :
               \E c \in webhook.response.rpc :
                 c.p_user_id = r.user_id /\ c.p_plan_type = r.plan_type
        ELSE webhook.response.rpc = {}

----------------------------------------------------------------------------
(* Claims about the super-admin dashboard, checked under AdminSpec. *)

\* both session keys are in local storage and the login is less than 8
\* hours old at instant t
SessionValid(t) ==
  /\ admin.authenticated
  /\ admin.loginTime # {}
  /\ \A l \in admin.loginTime : t - l < 8 * HOUR

\* C23: in every reachable state isAuthenticated is true, and dashboard
\* data is fetched, only if both session keys are in local storage and
\* fewer than 8 hours have elapsed since the stored login time, also when
\* the page stays open across the expiry instant.
C23_SessionExpires ==
  /\ admin.isAuthenticated => SessionValid(now)
  /\ \A f \in admin.fetched : f.keys /\ \A age \in f.age : age < 8 * HOUR


----------------------------------------------------------------------------
(* Claims about the support chat, checked under ChatSpec. *)

\* C29: the list of support messages shown for the selected ticket never
\* contains the same message id twice, under any interleaving of the
\* real-time INSERT callback, fetchMessages and handleSendMessage.
C29_NoDuplicateMessages ==
  \A i, j \in DOMAIN chat.messages :
    chat.messages[i] = chat.messages[j] => i = j

----------------------------------------------------------------------------
(* Claims about AuthProvider, checked under AuthSpec. *)

\* C30: restaurant is non-null only while user is non-null: after signOut
\* or an auth-state change to no session, a fetchRestaurant or
\* createDefaultRestaurant still waiting in an await never sets restaurant.
C30_RestaurantOnlyWithUser ==
  auth.restaurant # {} => auth.user # {}
====
